---- MODULE Spec2Model ----
(***************************************************************************)
(* Model of TopicMining.py: a Streamlit script that takes a product        *)
(* description and a customer profile, asks a completion endpoint for      *)
(* pipe-separated Wikipedia titles, and builds a pageviews URL.            *)
(*                                                                         *)
(* Strings that the program processes character by character (the API key,*)
(* the completion's content, the URL) are sequences of one-character       *)
(* strings.  Fixed literals that are only displayed or concatenated (the   *)
(* messages, the base URL) are single symbols.                             *)
(***************************************************************************)
EXTENDS Integers, Sequences, FiniteSets, TLC

VARIABLES
    OPENAI_API_KEY,    \* module-level global read from st.secrets (line 21)
    pc,                \* position of the script run
    product_desc,      \* main: first text area
    customer_profile,  \* main: second text area
    spinner,           \* TRUE while inside the `with st.spinner(...)` block
    in_flight,         \* TRUE while client.chat.completions.create is blocking
    requests,          \* number of create(...) calls made by this script run
    response,          \* what the create(...) call produced (content or exception)
    wiki_pages_str,    \* find_relevant_wiki_pages's return value
    page_list,         \* main: wiki_pages_str.split('|')
    final_url,         \* main: base_url + encoded_pages_str
    readable_pages,    \* main: the display rendering of page_list
    display            \* the elements rendered on the page, in order

vars == <<OPENAI_API_KEY, pc, product_desc, customer_profile, spinner, in_flight,
          requests, response, wiki_pages_str, page_list, final_url,
          readable_pages, display>>

----------------------------------------------------------------------------
(* Bounds of the model *)

\* most characters other than the separator in a completion's content
MaxChars == 3

(* Program constants *)

\* line 72: len(page_titles_string.split('|')) < 5
MinSegments == 5

----------------------------------------------------------------------------
(* Characters and strings *)

\* The characters a completion is made of: an alphanumeric character (a
\* digit, which is also a hexadecimal digit, so that "%33" is a title that
\* reads as an escape), the two title punctuation characters, a whitespace
\* character, a character that quote must escape, and the separator.
Alphabet == {"3", "_", "-", " ", "%", "|"}

\* Python's None, a value distinct from every string over the alphabet
None == <<"None">>

\* ord(c) for the characters of the model
Ord(c) ==
    CASE c = " " -> 32
      [] c = "%" -> 37
      [] c = "-" -> 45
      [] c = "/" -> 47
      [] c = "3" -> 51
      [] c = "_" -> 95
      [] c = "|" -> 124

HexDigits == <<"0", "1", "2", "3", "4", "5", "6", "7", "8", "9",
               "A", "B", "C", "D", "E", "F">>

\* str.isspace() for one character
IsSpace(c) == c = " "

\* truthiness of a str-or-None value: `if s:` / `not s`
Truthy(s) == s # None /\ s # <<>>

\* `sub in s` for strings
Contains(s, sub) ==
    \E i \in 0..(Len(s) - Len(sub)) : SubSeq(s, i + 1, i + Len(sub)) = sub

\* s.strip(): leading and trailing whitespace removed
Strip(s) ==
    LET keep == {i \in DOMAIN s : ~IsSpace(s[i])}
    IN  IF keep = {} THEN <<>>
        ELSE LET lo == CHOOSE i \in keep : \A j \in keep : i <= j
                 hi == CHOOSE i \in keep : \A j \in keep : i >= j
             IN  SubSeq(s, lo, hi)

\* s.split(sep) for a one-character separator: always at least one segment
RECURSIVE Split(_, _)
Split(s, sep) ==
    IF \A i \in DOMAIN s : s[i] # sep THEN <<s>>
    ELSE LET i == CHOOSE k \in DOMAIN s :
                     s[k] = sep /\ \A j \in 1..(k - 1) : s[j] # sep
         IN  <<SubSeq(s, 1, i - 1)>> \o Split(SubSeq(s, i + 1, Len(s)), sep)

\* sep.join(parts)
RECURSIVE Join(_, _)
Join(parts, sep) ==
    IF parts = <<>> THEN <<>>
    ELSE IF Len(parts) = 1 THEN parts[1]
    ELSE parts[1] \o <<sep>> \o Join(Tail(parts), sep)

\* s.replace(old, new) for one-character old and new
Replace(s, old, new) == [i \in DOMAIN s |-> IF s[i] = old THEN new ELSE s[i]]

\* urllib.parse.quote's unreserved set (alphanumerics and "_.-~") plus its
\* default safe='/', over the characters of the model
QuoteSafe == {"3", "_", "-", ".", "~", "/"}

\* urllib.parse.quote of one character: safe characters are kept, every
\* other character becomes %XX with XX its code in upper-case hexadecimal
QuoteChar(c) ==
    IF c \in QuoteSafe THEN <<c>>
    ELSE <<"%", HexDigits[(Ord(c) \div 16) + 1], HexDigits[(Ord(c) % 16) + 1]>>

\* urllib.parse.quote(s)
RECURSIVE Quote(_)
Quote(s) == IF s = <<>> THEN <<>> ELSE QuoteChar(Head(s)) \o Quote(Tail(s))

----------------------------------------------------------------------------
(* The environment *)

SkProj == <<"s", "k", "-", "p", "r", "o", "j">>

\* The secrets the application may be configured with: an empty key, a key
\* of another shape, a project key, and a key that only contains "sk-proj".
Keys == { <<>>,
          <<"s", "k", "-", "a">>,
          SkProj \o <<"-", "a">>,
          <<"x">> \o SkProj }

\* What the user may have typed into a text area
Inputs == {"", "coffee"}

\* `not s` for a text area's value
Empty(s) == s = ""

\* Texts of the exceptions the client library may raise
ClientErrors == {"APIConnectionError", "RateLimitError"}

\* The characters of a title
TitleChars == Alphabet \ {"|"}

\* Most separators in a completion's content: one more than the validation
\* at line 72 asks for, so that contents fall on both sides of it
MaxPipes == MinSegments

\* Where the separators stand in a content: "|" a separator, "c" a character
Patterns ==
    {p \in UNION {[1..n -> {"|", "c"}] : n \in 0..(MaxPipes + MaxChars)} :
        /\ Cardinality({i \in DOMAIN p : p[i] = "|"}) <= MaxPipes
        /\ Cardinality({i \in DOMAIN p : p[i] = "c"}) <= MaxChars}

\* The content with the pattern's separators and the characters f in between
Fill(p, f) ==
    [i \in DOMAIN p |->
        IF p[i] = "|" THEN "|" ELSE f[Cardinality({j \in 1..i : p[j] = "c"})]]

\* The ways to choose the characters of a content with pattern p
Fills(p) == [1..Cardinality({i \in DOMAIN p : p[i] = "c"}) -> TitleChars]

----------------------------------------------------------------------------
(* Rendered elements *)

\* An element has a kind (the st.* call), its fixed text, and the value
\* interpolated into it or attached to it.
Element(kind, text, detail) == [kind |-> kind, text |-> text, detail |-> detail]

Title        == Element("title", "AI-Powered Topic Mining Tool", "")
Intro        == Element("markdown", "Describe your product and ideal customer.", "")
MissingInput == Element("warning", "Please fill out both fields", "")
InvalidKey   == Element("error", "The hardcoded OpenAI API key appears to be invalid", "")
\* (faulty variant: the exception is not interpolated)
ApiError_NoText(e) == Element("error", "An error occurred while contacting the OpenAI API: ", "")
ApiError(e)  == Element("error", "An error occurred while contacting the OpenAI API: ", e)
Success      == Element("success", "Success! Found relevant topics.", "")
Rule         == Element("markdown", "---", "")
UrlHeader    == Element("subheader", "Your Custom Wikipedia Pageview URL", "")
UrlHelp      == Element("markdown", "Click the button below", "")
LinkButton(url) == Element("link_button", "View Wikipedia Trends Now", url)
TopicsHeader == Element("markdown", "Topics Found by gpt-4o:", "")
TopicsList(pages) == Element("write", "bullets", pages)
CouldNotGenerate == Element("error", "Could not generate Wikipedia topics", "")

\* line 21: st.secrets["OPENAI_API_KEY"] raises when the secret is not configured
SecretMissing == Element("exception", "KeyError", "OPENAI_API_KEY")

\* line 117
base_url == "https://pageviews.wmcloud.org/?project=en.wikipedia.org&platform=all-access&agent=user&redirects=0&range=latest-20&pages="

\* line 73
FormatError == "AI model did not return the expected pipe-separated format."

\* None.strip() at line 69
NoneTypeError == "'NoneType' object has no attribute 'strip'"

----------------------------------------------------------------------------
(* The script *)

\* line 33: the key passes when `not api_key or "sk-proj" not in api_key` is false
KeyAccepted(api_key) == ~(~Truthy(api_key) \/ ~Contains(api_key, SkProj))

\* line 102: `not product_desc or not customer_profile`
\* (faulty variant: `and` in place of `or`)
MissingInputs_Both(pd, cp) == Empty(pd) /\ Empty(cp)
MissingInputs(pd, cp) == Empty(pd) \/ Empty(cp)

\* line 72: the validation that raises ValueError
\* (faulty variant: `<=` in place of `<`)
Malformed_OffByOne(page_titles_string) ==
    \/ ~Contains(page_titles_string, <<"|">>)
    \/ Len(Split(page_titles_string, "|")) <= MinSegments
Malformed(page_titles_string) ==
    \/ ~Contains(page_titles_string, <<"|">>)
    \/ Len(Split(page_titles_string, "|")) < MinSegments

\* line 112
PageList(s) == Split(s, "|")

\* line 113: [urllib.parse.quote(page.strip()) for page in page_list]
\* (faulty variant: the titles are not quoted)
EncodedPages_NoQuote(pages) == [i \in DOMAIN pages |-> Strip(pages[i])]
EncodedPages(pages) == [i \in DOMAIN pages |-> Quote(Strip(pages[i]))]

\* lines 114-118: base_url + '|'.join(encoded_pages)
\* (faulty variant: the joined string is quoted, separators included)
FinalUrl_QuoteWhole(pages) ==
    <<base_url>> \o Quote(Join([i \in DOMAIN pages |-> Strip(pages[i])], "|"))
FinalUrl(pages) == <<base_url>> \o Join(EncodedPages(pages), "|")

\* line 130: [p.replace('_', ' ').strip() for p in page_list]
\* (faulty variant: strip before replace)
ReadablePages_StripFirst(pages) ==
    [i \in DOMAIN pages |-> Replace(Strip(pages[i]), "_", " ")]
ReadablePages(pages) == [i \in DOMAIN pages |-> Strip(Replace(pages[i], "_", " "))]

\* The state of a script run that has rendered the form (lines 14-23, 85-99)
Init ==
    /\ OPENAI_API_KEY \in Keys \cup {None}
    /\ pc = IF OPENAI_API_KEY = None THEN "halted" ELSE "idle"
    /\ product_desc = ""
    /\ customer_profile = ""
    /\ spinner = FALSE
    /\ in_flight = FALSE
    /\ requests = 0
    /\ response = [kind |-> "none", content |-> None, exc |-> ""]
    /\ wiki_pages_str = None
    /\ page_list = <<>>
    /\ final_url = None
    /\ readable_pages = <<>>
    /\ display = IF OPENAI_API_KEY = None THEN <<SecretMissing>> ELSE <<Title, Intro>>

\* lines 101-105: the form is submitted with the two text areas' values
\* (faulty variant: the resolver is called outside the spinner block)
Submit_NoSpinner(pd, cp) ==
    /\ pc = "idle"
    /\ product_desc' = pd
    /\ customer_profile' = cp
    /\ IF MissingInputs(pd, cp)
       THEN /\ display' = Append(display, MissingInput)
            /\ pc' = "done"
       ELSE /\ display' = display
            /\ pc' = "resolver"
    /\ UNCHANGED <<OPENAI_API_KEY, spinner, in_flight, requests, response,
                   wiki_pages_str, page_list, final_url, readable_pages>>
Submit(pd, cp) ==
    /\ pc = "idle"
    /\ product_desc' = pd
    /\ customer_profile' = cp
    /\ IF MissingInputs(pd, cp)
       THEN /\ display' = Append(display, MissingInput)
            /\ pc' = "done"
            /\ spinner' = spinner
       ELSE /\ display' = display
            /\ pc' = "resolver"
            /\ spinner' = TRUE
    /\ UNCHANGED <<OPENAI_API_KEY, in_flight, requests, response, wiki_pages_str,
                   page_list, final_url, readable_pages>>

\* lines 33-68: the key check, then the create(...) call is issued and blocks
CallResolver ==
    /\ pc = "resolver"
    /\ IF KeyAccepted(OPENAI_API_KEY)
       THEN /\ in_flight' = TRUE
            /\ requests' = requests + 1
            /\ pc' = "waiting"
            /\ UNCHANGED <<display, wiki_pages_str>>
       ELSE /\ display' = Append(display, InvalidKey)
            /\ wiki_pages_str' = None
            /\ pc' = "returned"
            /\ UNCHANGED <<in_flight, requests>>
    /\ UNCHANGED <<OPENAI_API_KEY, product_desc, customer_profile, spinner, response,
                   page_list, final_url, readable_pages>>

\* lines 76-78: the handler of every exception raised inside the try block
\* (faulty variant: the handler calls the endpoint again)
Except_Retry(e) ==
    /\ display' = Append(display, ApiError(e))
    /\ wiki_pages_str' = None
    /\ pc' = "resolver"
\* (faulty variant: the handler returns None without st.error)
Except_Silent(e) ==
    /\ display' = display
    /\ wiki_pages_str' = None
    /\ pc' = "returned"
Except(e) ==
    /\ display' = Append(display, ApiError(e))
    /\ wiki_pages_str' = None
    /\ pc' = "returned"

\* lines 61-68, 76-78: the create(...) call raises e
Raised(e) ==
    /\ in_flight' = FALSE
    /\ response' = [kind |-> "raise", content |-> None, exc |-> e]
    /\ Except(e)
    /\ UNCHANGED <<OPENAI_API_KEY, product_desc, customer_profile, spinner, requests,
                   page_list, final_url, readable_pages>>

\* lines 61-78: the create(...) call returns a message with this content
Returned(content) ==
    /\ in_flight' = FALSE
    /\ response' = [kind |-> "content", content |-> content, exc |-> ""]
    /\ IF content = None
       THEN Except(NoneTypeError)
       ELSE LET page_titles_string == Strip(content)
            IN  IF Malformed(page_titles_string)
                THEN Except(FormatError)
                ELSE /\ wiki_pages_str' = page_titles_string
                     /\ pc' = "returned"
                     /\ display' = display
    /\ UNCHANGED <<OPENAI_API_KEY, product_desc, customer_profile, spinner, requests,
                   page_list, final_url, readable_pages>>

\* The blocking call ends by raising one of the client's exceptions
CompletionRaises ==
    /\ pc = "waiting"
    /\ \E e \in ClientErrors : Raised(e)

\* The blocking call ends with a completion, whose content may be None
CompletionReturns ==
    /\ pc = "waiting"
    /\ \/ Returned(None)
       \/ \E p \in Patterns : \E f \in Fills(p) : Returned(Fill(p, f))

\* lines 105-107: the resolver has returned and the `with` block is left
LeaveSpinner ==
    /\ pc = "returned"
    /\ spinner' = FALSE
    /\ pc' = "render"
    /\ UNCHANGED <<OPENAI_API_KEY, product_desc, customer_profile, in_flight, requests,
                   response, wiki_pages_str, page_list, final_url, readable_pages,
                   display>>

\* lines 108-134: the result is rendered
Render ==
    /\ pc = "render"
    /\ IF Truthy(wiki_pages_str)
       THEN /\ page_list' = PageList(wiki_pages_str)
            /\ final_url' = FinalUrl(page_list')
            /\ readable_pages' = ReadablePages(page_list')
            /\ display' = display \o <<Success, Rule, UrlHeader, UrlHelp,
                                       LinkButton(final_url'), Rule, TopicsHeader,
                                       TopicsList(readable_pages')>>
       ELSE /\ display' = Append(display, CouldNotGenerate)
            /\ UNCHANGED <<page_list, final_url, readable_pages>>
    /\ pc' = "done"
    /\ UNCHANGED <<OPENAI_API_KEY, product_desc, customer_profile, spinner, in_flight,
                   requests, response, wiki_pages_str>>

\* The next interaction reruns the script from the top with the same secret
Rerun ==
    /\ pc \in {"done", "halted"}
    /\ pc' = IF OPENAI_API_KEY = None THEN "halted" ELSE "idle"
    /\ product_desc' = ""
    /\ customer_profile' = ""
    /\ spinner' = FALSE
    /\ in_flight' = FALSE
    /\ requests' = 0
    /\ response' = [kind |-> "none", content |-> None, exc |-> ""]
    /\ wiki_pages_str' = None
    /\ page_list' = <<>>
    /\ final_url' = None
    /\ readable_pages' = <<>>
    /\ display' = IF OPENAI_API_KEY = None THEN <<SecretMissing>> ELSE <<Title, Intro>>
    /\ UNCHANGED OPENAI_API_KEY

Next ==
    \/ \E pd \in Inputs, cp \in Inputs : Submit(pd, cp)
    \/ CallResolver
    \/ CompletionRaises
    \/ CompletionReturns
    \/ LeaveSpinner
    \/ Render
    \/ Rerun

Spec == Init /\ [][Next]_vars

----------------------------------------------------------------------------
(* Vocabulary of the properties *)

\* an element of this kind and text is on the page
Shown(e) == \E i \in DOMAIN display : display[i].kind = e.kind /\ display[i].text = e.text

\* the messages on the page: everything but the fixed headings and rules
IsMessage(e) == e.kind \in {"warning", "error", "success", "link_button", "write", "exception"}
Messages == SelectSeq(display, IsMessage)
MessageKinds == [i \in DOMAIN Messages |-> Messages[i].kind]

Range(f) == {f[i] : i \in DOMAIN f}

\* number of occurrences of character c in s
NumChar(s, c) == Cardinality({i \in DOMAIN s : s[i] = c})

\* the run has delivered a result to the page
Succeeded == pc = "done" /\ Shown(Success)

\* t is s without its leading and trailing whitespace, said without Strip
IsStripOf(t, s) ==
    /\ t = <<>> \/ (t[1] # " " /\ t[Len(t)] # " ")
    /\ \E k \in 0..(Len(s) - Len(t)) :
          /\ SubSeq(s, k + 1, k + Len(t)) = t
          /\ \A j \in (1..k) \cup ((k + Len(t) + 1)..Len(s)) : s[j] = " "

\* chr(n), with "?" for every character outside the model's alphabet
Chr(n) ==
    IF \E c \in Alphabet \cup {"/"} : Ord(c) = n
    THEN CHOOSE c \in Alphabet \cup {"/"} : Ord(c) = n
    ELSE "?"

HexValue(c) == CHOOSE v \in 0..15 : HexDigits[v + 1] = c
IsHex(c) == \E v \in 0..15 : HexDigits[v + 1] = c

\* urllib.parse.unquote(s): every %XX becomes the character of code XX
RECURSIVE Unquote(_)
Unquote(s) ==
    IF s = <<>> THEN <<>>
    ELSE IF s[1] = "%" /\ Len(s) >= 3 /\ IsHex(s[2]) /\ IsHex(s[3])
         THEN <<Chr(16 * HexValue(s[2]) + HexValue(s[3]))>> \o Unquote(SubSeq(s, 4, Len(s)))
         ELSE <<s[1]>> \o Unquote(Tail(s))

\* the value of the pages parameter of the URL
PagesValue == Tail(final_url)

----------------------------------------------------------------------------
(* C1: a submission with an empty product description or an empty customer *)
(* profile shows the MissingInput warning and nothing else: the resolver   *)
(* is not entered, no request is issued, no error is shown and no URL is   *)
(* built, whatever the configured key.                                     *)
C1_MissingInputWarnsOnly ==
    (pc \notin {"idle", "halted"} /\ (product_desc = "" \/ customer_profile = ""))
    => /\ pc = "done"
       /\ MessageKinds = <<"warning">>
       /\ Shown(MissingInput)
       /\ requests = 0
       /\ ~in_flight
       /\ ~spinner
       /\ response.kind = "none"
       /\ wiki_pages_str = None
       /\ final_url = None

C1_Witness ==
    /\ pc = "done"
    /\ product_desc = ""
    /\ customer_profile # ""
    /\ Contains(OPENAI_API_KEY, SkProj)
    /\ Shown(MissingInput)

(* C2: a content with fewer than 5 segments (fewer than 4 separators) is a *)
(* resolution failure and no URL is built; a content with 5 or more        *)
(* segments, empty ones included, is a success with a URL.                 *)
C2_FiveSegmentBoundary ==
    (response.kind = "content" /\ response.content # None)
    => LET segments == NumChar(response.content, "|") + 1
       IN  /\ segments < 5 =>
                /\ wiki_pages_str = None
                /\ final_url = None
                /\ \E i \in DOMAIN display :
                      /\ display[i].kind = "error"
                      /\ display[i].detail = FormatError
                /\ pc = "done" => (Shown(CouldNotGenerate) /\ ~Shown(Success)
                                   /\ "link_button" \notin Range(MessageKinds))
           /\ segments >= 5 =>
                /\ wiki_pages_str # None
                /\ "error" \notin Range(MessageKinds)
                /\ pc = "done" => (Shown(Success) /\ final_url # None
                                   /\ Len(page_list) = segments
                                   /\ "link_button" \in Range(MessageKinds))

C2_Witness ==
    /\ pc = "done"
    /\ response.kind = "content"
    /\ response.content = <<"|", "|", "|", "|">>
    /\ Shown(Success)
    /\ final_url # None

\* the segments of the content the endpoint returned
ResponseSegments == Split(response.content, "|")

\* the parts of the pages value between its raw separators, each decoded
DecodedPages ==
    LET parts == Split(PagesValue, "|")
    IN  [i \in DOMAIN parts |-> Unquote(parts[i])]

(* C3 as stated: the URL starts with the base URL and its pages value,     *)
(* split on raw separators and decoded, gives back the segments of the     *)
(* TopicList exactly, whitespace around a segment included.                *)
C3_RoundTripExact ==
    Succeeded => /\ Head(final_url) = base_url
                 /\ DecodedPages = page_list

(* C3 as amended: the URL starts with the base URL and its pages value,    *)
(* split on raw separators and decoded, gives back the segments of the     *)
(* response in number and order, each without its leading and trailing     *)
(* whitespace; whitespace inside a segment is kept.                        *)
C3_RoundTripStripped ==
    Succeeded =>
        LET decoded == DecodedPages
            segments == ResponseSegments
        IN  /\ Head(final_url) = base_url
            /\ Len(decoded) = Len(segments)
            /\ \A i \in DOMAIN decoded : IsStripOf(decoded[i], segments[i])

\* a success with a token that holds whitespace around an escape look-alike
C3_Witness ==
    /\ Succeeded
    /\ \E i \in DOMAIN page_list :
          /\ page_list[i] = <<" ", "%", "3">>
          /\ DecodedPages[i] = <<"%", "3">>

HasPrefix(s, prefix) == Len(s) >= Len(prefix) /\ SubSeq(s, 1, Len(prefix)) = prefix

BothFilled == product_desc # "" /\ customer_profile # ""

(* C4: with both fields filled, a key that is absent, empty or does not    *)
(* begin with the key prefix makes the resolver refuse: the error is       *)
(* shown, the resolver returns None and no request is ever attempted.      *)
C4_RefusesKeyWithoutPrefix ==
    ~HasPrefix(OPENAI_API_KEY, SkProj)
    => /\ requests = 0
       /\ ~in_flight
       /\ (BothFilled /\ pc \in {"returned", "render", "done"})
             => (Shown(InvalidKey) /\ wiki_pages_str = None)

(* C5: a submission issues at most one completion request, and exactly one *)
(* when both fields are filled and the key is accepted; an exception or a  *)
(* malformed content is not followed by a second request.                  *)
C5_AtMostOneRequest ==
    /\ requests <= 1
    /\ pc \in {"waiting", "returned", "render", "done"}
          => (requests = 1 <=> (BothFilled /\ ~Shown(InvalidKey)))
    /\ response.kind # "none" => (requests = 1 /\ ~in_flight)

C5_Witness ==
    /\ pc = "done"
    /\ requests = 1
    /\ response.kind = "content"
    /\ NumChar(response.content, "|") = 3
    /\ Shown(CouldNotGenerate)

(* C6: when the completion call raises, the error shown holds the          *)
(* exception's text, the resolver returns None, no URL and no topic list   *)
(* is built or shown, and the script can be run again.                     *)
C6_ExceptionReported ==
    response.kind = "raise"
    => /\ \E i \in DOMAIN display :
             /\ display[i].kind = "error"
             /\ display[i].text = "An error occurred while contacting the OpenAI API: "
             /\ display[i].detail = response.exc
       /\ wiki_pages_str = None
       /\ final_url = None
       /\ page_list = <<>>
       /\ readable_pages = <<>>
       /\ Range(MessageKinds) = {"error"}
       /\ pc = "done" => ENABLED Rerun

C6_Witness ==
    /\ pc = "done"
    /\ response.kind = "raise"
    /\ response.exc = "RateLimitError"
    /\ Shown(CouldNotGenerate)

\* the percent-encoding of one character, by table
EscapeOf(c) ==
    CASE c = " " -> <<"%", "2", "0">>
      [] c = "%" -> <<"%", "2", "5">>
      [] c = "|" -> <<"%", "7", "C">>
      [] OTHER   -> <<c>>

RECURSIVE PercentEncoded(_)
PercentEncoded(t) ==
    IF t = <<>> THEN <<>> ELSE EscapeOf(Head(t)) \o PercentEncoded(Tail(t))

\* the parts of the pages value between its raw separators
UrlParts == Split(PagesValue, "|")

(* C7 as stated: the URL is the base URL followed by the tokens of the     *)
(* TopicList, each percent-encoded, joined by raw separators.              *)
C7_TokensEncodedAsTheyAre ==
    Succeeded
    => final_url = <<base_url>>
                   \o Join([i \in DOMAIN page_list |-> PercentEncoded(page_list[i])], "|")

(* C7 as amended: the URL is the base URL followed by the tokens of the    *)
(* TopicList, each stripped of its leading and trailing whitespace and     *)
(* then percent-encoded, in order, joined by raw separators: n tokens give *)
(* n-1 raw separators, none inside an encoded token, and "_" and "-" are   *)
(* left as they are.                                                       *)
C7_StrippedTokensEncodedAndJoined ==
    Succeeded =>
        LET parts == UrlParts
        IN  /\ Head(final_url) = base_url
            /\ Len(parts) = Len(page_list)
            /\ NumChar(PagesValue, "|") = Len(page_list) - 1
            /\ \A i \in DOMAIN parts :
                  /\ \E a \in 1..(Len(page_list[i]) + 1), b \in 0..Len(page_list[i]) :
                        /\ IsStripOf(SubSeq(page_list[i], a, b), page_list[i])
                        /\ parts[i] = PercentEncoded(SubSeq(page_list[i], a, b))
                  /\ NumChar(parts[i], "_") = NumChar(page_list[i], "_")
                  /\ NumChar(parts[i], "-") = NumChar(page_list[i], "-")

\* a success with a token that holds "-" and "_" and one that must be escaped
C7_Witness ==
    /\ Succeeded
    /\ \E i \in DOMAIN page_list :
          page_list[i] = <<"3", "-">> /\ UrlParts[i] = <<"3", "-">>
    /\ \E i \in DOMAIN page_list :
          page_list[i] = <<"_">> /\ UrlParts[i] = <<"_">>
    /\ Len(page_list) = 6

\* the topic list on the page
ShownTopics ==
    LET k == CHOOSE k \in DOMAIN display : display[k].kind = "write"
    IN  display[k].detail

(* C8 as stated: the topic list shown has the length and order of the      *)
(* TopicList and each entry is the token with every "_" replaced by " ".   *)
C8_UnderscoresReplacedOnly ==
    Succeeded
    => ShownTopics = [i \in DOMAIN page_list |->
                        [j \in DOMAIN page_list[i] |->
                            IF page_list[i][j] = "_" THEN " " ELSE page_list[i][j]]]

(* C8 as amended: the topic list shown has the length and order of the     *)
(* TopicList and each entry is the token with every "_" replaced by " "    *)
(* and then stripped of leading and trailing whitespace; the URL is built  *)
(* from the tokens, so its parts still carry the underscores.              *)
C8_ReadableTopics ==
    Succeeded =>
        LET shown == ShownTopics
            parts == UrlParts
        IN  /\ Len(shown) = Len(page_list)
            /\ \A i \in DOMAIN shown :
                  /\ IsStripOf(shown[i],
                               [j \in DOMAIN page_list[i] |->
                                   IF page_list[i][j] = "_" THEN " " ELSE page_list[i][j]])
                  /\ NumChar(shown[i], "_") = 0
                  /\ NumChar(parts[i], "_") = NumChar(page_list[i], "_")

\* a success with a token that has an underscore inside
C8_Witness ==
    /\ Succeeded
    /\ \E i \in DOMAIN page_list :
          /\ page_list[i] = <<"3", "_", "3">>
          /\ ShownTopics[i] = <<"3", " ", "3">>
          /\ UrlParts[i] = <<"3", "_", "3">>

(* C9: the spinner is on before the request is issued, stays on until the  *)
(* resolver has returned, and is off before the success message, the link  *)
(* or the final error is shown; no request is in flight with it off.       *)
C9_SpinnerCoversCall ==
    /\ in_flight => spinner
    /\ pc \in {"resolver", "waiting", "returned"} => spinner
    /\ pc = "resolver" => requests = 0
    /\ pc \in {"idle", "render", "done", "halted"} => ~spinner
    /\ (Shown(Success) \/ Shown(CouldNotGenerate) \/ "link_button" \in Range(MessageKinds))
          => ~spinner

C9_Witness == pc = "waiting" /\ in_flight /\ spinner /\ requests = 1

(* C10: a submission ends in exactly one of three outcomes: the warning    *)
(* alone; success with the success message, the link to the URL and the    *)
(* topic list and no error or warning; or failure with two errors, the     *)
(* specific one and then the generic one, and no link or topic list.       *)
C10_ThreeOutcomes ==
    /\ pc = "done" =>
          \/ /\ MessageKinds = <<"warning">>
             /\ Messages[1].text = MissingInput.text
          \/ /\ MessageKinds = <<"success", "link_button", "write">>
             /\ Messages[2].detail = final_url
             /\ final_url # None
          \/ /\ MessageKinds = <<"error", "error">>
             /\ Messages[1].text \in {InvalidKey.text, ApiError("").text}
             /\ Messages[2].text = CouldNotGenerate.text
             /\ final_url = None
    /\ "link_button" \in Range(MessageKinds) <=> "success" \in Range(MessageKinds)

C10_Witness ==
    /\ pc = "done"
    /\ MessageKinds = <<"error", "error">>
    /\ Messages[1].text = InvalidKey.text
    /\ Messages[2].text = CouldNotGenerate.text

====
